---- MODULE Spec2Model ----
(***************************************************************************)
(* Runtime-argument resolution of devito: ScalarArgument, TensorArgument   *)
(* and DimensionArgProvider (src/devito/arguments.py) over the dimension   *)
(* objects of src/devito/dimension.py.                                     *)
(*                                                                         *)
(* The program is modelled under seven populations of objects ("scene"):   *)
(*   shared: the root dimension x indexed by the fields A and B;           *)
(*   fixed:  the root dimension x indexed by the fields V and W;           *)
(*   timed:  the root dimension time and the buffered dimension t over it; *)
(*   field:  time, t and x, and the time-varying field U over (t, x);      *)
(*   lowered: time, t and the lowered dimension tl made from t;            *)
(*   kernel: x and the field A, whose arguments a kernel invocation        *)
(*           resolves before it launches;                                  *)
(*   abstract: x, a RuntimeArgument and a RuntimeArgProvider of the base   *)
(*           classes.                                                      *)
(* Every action is one call made by a client of the objects.               *)
(*                                                                         *)
(* State of the program: size, reverse and cls (the size and reverse       *)
(* attributes and the class of each dimension), rtargs (each dimension's   *)
(* cached rtargs),                                                         *)
(* dim_value (each dimension's _value), arg_value (the _value of each      *)
(* dimension's <name>_size argument), tensor_value (the array each tensor  *)
(* argument holds).  Records of the run: op and ret (the last call and     *)
(* what it returned), obs (the largest number shown to each root dimension *)
(* since the last reset of everything).  The kernel invocation keeps       *)
(* launch (where the launch attempt stands) and verified (the arguments    *)
(* whose verify has returned true in it).                                  *)
(*                                                                         *)
(* The consumers of the engine are modelled each under a specification of  *)
(* its own, with a variable of its own that is "idle" everywhere else:     *)
(*   SpecGrid (grid): Grid.__init__ of src/devito/grid.py;                 *)
(*   SpecModel (model): Model of src/examples/seismic/model.py, its fields *)
(*           and its velocity setter;                                      *)
(*   SpecData (world): dimension objects, the name devito.x and the        *)
(*           indices of the data objects built over them;                  *)
(*   SpecMarch (march): operators marching over the saved time steps of    *)
(*           the time data a and b, forward and backward;                  *)
(*   SpecYask (yask): the allocation of data objects as grids of a YASK    *)
(*           context.                                                      *)
(* SpecPass runs the engine itself under a narrower client: resolution     *)
(* passes in which every observation is a number shown to a dimension, by  *)
(* the client or by a tensor argument, separated by the joint reset.       *)
(***************************************************************************)
EXTENDS Integers, Sequences, FiniteSets, TLC

VARIABLES scene, size, reverse, cls, rtargs, dim_value, arg_value,
          tensor_value, op, ret, obs, launch, verified,
          grid, model, world, march, yask

vars == <<scene, size, reverse, cls, rtargs, dim_value, arg_value,
          tensor_value, op, ret, obs, launch, verified,
          grid, model, world, march, yask>>

\* The state of the argument engine, and the state of its consumers.
engine == <<scene, size, reverse, cls, rtargs, dim_value, arg_value,
            tensor_value, op, ret, obs, launch, verified>>

consumers == <<grid, model, world, march, yask>>

\* Python's None, the "unset" value of every holder.
None == -1

\* ------------------------------------------------------------------ bounds
\* Largest value a client passes directly to verify of a dimension or of a
\* size argument (tensor extents come from the shapes below).
MaxDirect == 2

DirectVals == 1..MaxDirect

\* ----------------------------------------------------------------- objects
RootDims == {"x", "time"}

Dims == RootDims \cup {"t", "tl"}

\* t = BufferedDimension('t', parent=time); hasattr(self, 'parent')
HasParent(d) == d = "t"

parent(d) == "time"

\* tl = LoweredDimension('tl', buffered=t, offset=...): it has a buffered
\* attribute and no parent attribute
IsLowered(d) == d = "tl"

buffered(d) == "t"

Tensors == {"A", "B", "U", "V", "W"}

\* source.indices of each tensor-backed field
indices(T) == IF T = "U" THEN <<"t", "x">> ELSE <<"x">>

Scenes ==
  {"shared", "fixed", "timed", "field", "lowered", "kernel", "abstract"}

\* The objects the program has constructed in a scene.
DimsOf(sc) ==
  CASE sc \in {"shared", "fixed", "kernel", "abstract"} -> {"x"}
    [] sc = "timed" -> {"time", "t"}
    [] sc = "field" -> {"time", "t", "x"}
    [] sc = "lowered" -> {"time", "t", "tl"}

TensorsOf(sc) ==
  CASE sc = "shared" -> {"A", "B"}
    [] sc = "kernel" -> {"A"}
    [] sc = "fixed" -> {"V", "W"}
    [] sc \in {"timed", "lowered", "abstract"} -> {}
    [] sc = "field" -> {"U"}

\* The arrays a client hands to verify in a scene: the fields' own sources,
\* an external array in the shared scene, an array of another shape in the
\* kernel scene.
ArraysOf(sc) ==
  TensorsOf(sc) \cup (IF sc = "shared" THEN {"ext"}
                     ELSE IF sc = "kernel" THEN {"B"} ELSE {})

\* The dimensions on which a client calls verify itself (on the others only
\* the tensor arguments do).
DirectDims(sc) ==
  CASE sc \in {"field", "abstract"} -> {}
    [] sc = "lowered" -> {"time", "tl"}
    [] OTHER -> DimsOf(sc)

\* The contract methods the base classes leave unimplemented: decl, ccode
\* and verify of RuntimeArgument, rtargs of RuntimeArgProvider.
AbstractMethods == {"decl", "ccode", "verify", "rtargs"}

\* The unimplemented methods a client calls in a scene.
AbstractOf(sc) == IF sc = "abstract" THEN AbstractMethods ELSE {}

\* The dimensions whose reverse attribute a client assigns in a scene.
ReverseDims(sc) == IF sc = "lowered" THEN DimsOf(sc) ELSE {}

\* The arrays a client can hand to TensorArgument.verify: the sources of the
\* fields and one external array.
Arrays == Tensors \cup {"ext"}

\* value.shape / source.shape
shape(a) ==
  CASE a = "A" -> <<40>>
    [] a = "B" -> <<50>>
    [] a = "U" -> <<2, 8>>
    [] a = "V" -> <<8>>
    [] a = "W" -> <<12>>
    [] a = "ext" -> <<40>>

\* The number a client assigns to a dimension's size.
StaticSize == 10

SizeVals == {None, StaticSize}

\* ------------------------------------------------------- pure definitions
\* Variants of reducer: the latest value wins; min instead of max.
reducer_latest(a, b) == b

reducer_min(a, b) == IF a >= b THEN b ELSE a

\* reducer = max
reducer(a, b) == IF a >= b THEN a ELSE b

\* Variant of Size: the provider never sees a static size.
Size_unsized(sz, d) == None

\* self.size as the provider reads it: a BufferedDimension answers with its
\* parent's size, a LoweredDimension with its buffered dimension's, every
\* other dimension with its own attribute.  None is "no static size", the
\* case rtargs, ccode and verify test for with "self.size is None"; a
\* dimension constructed without size has it (the getter of OpenDimension,
\* which goes through rtargs and so through size again, is not followed).
Size(sz, d) ==
  IF HasParent(d) THEN sz[parent(d)]
  ELSE IF IsLowered(d) THEN sz[parent(buffered(d))]
  ELSE sz[d]

\* Variant of Reverse: a derived dimension answers with the constructor's
\* default.
Reverse_own(rv, d) == IF d \in RootDims THEN rv[d] ELSE FALSE

\* self.reverse: a BufferedDimension answers with its parent's reverse, a
\* LoweredDimension with its buffered dimension's, every other dimension
\* with its own attribute.
Reverse(rv, d) ==
  IF HasParent(d) THEN rv[parent(d)]
  ELSE IF IsLowered(d) THEN rv[parent(buffered(d))]
  ELSE rv[d]

\* Variant of RtargsAccess: a plain property, computed at every access.
RtargsAccess_fresh(rt, sz, d) ==
  [rt EXCEPT ![d] = IF Size(sz, d) # None THEN "empty" ELSE "arg"]

\* DimensionArgProvider.rtargs, a cached_property: computed from self.size at
\* the first access and never again.  "empty" is [], "arg" is [<d>_size].
RtargsAccess(rt, sz, d) ==
  IF rt[d] # "unset" THEN rt
  ELSE [rt EXCEPT ![d] = IF Size(sz, d) # None THEN "empty" ELSE "arg"]

\* Variant of ScalarVerify: None is bound like any other value.
ScalarVerify_rebind(cur, value) ==
  IF cur # None /\ value # None THEN reducer(cur, value) ELSE value

\* ScalarArgument.verify: the value held after verify(value)
ScalarVerify(cur, value) ==
  IF value # None
  THEN IF cur # None THEN reducer(cur, value) ELSE value
  ELSE cur

\* Variants of ready: no argument reports ready; every argument does.
ready_never(v) == FALSE

ready_always(v) == TRUE

\* RuntimeArgument.ready
ready(v) == v # None

\* Variant of AbstractCall: the method returns None.
AbstractCall_default(m) == "NoRet"

\* raise NotImplemented(): NotImplemented is a constant and not callable, so
\* the call raises (TypeError) before anything is returned or assigned.
AbstractCall(m) == "Raise"

\* Variant of ScalarReset: the value survives the reset.
ScalarReset_keep(cur) == cur

\* RuntimeArgument.reset of a ScalarArgument made by rtargs: the
\* default_value of the constructor, None.
ScalarReset(cur) == None

\* The value a client passes, or a tensor argument holds, when it is no array.
NoArray == "None"

\* Variant of TensorReset: the default_value of the base constructor, None.
TensorReset_unset(T, cur) == NoArray

\* RuntimeArgument.reset of a TensorArgument: _default_value is the source.
TensorReset(T, cur) == T

\* isinstance(self._value, np.ndarray): the external array is a raw array,
\* the sources of the fields are data objects.
IsNdarray(a) == a = "ext"

\* a.data: the buffer of a data object
data(a) ==
  CASE a = "A" -> "A.data"
    [] a = "B" -> "B.data"
    [] a = "U" -> "U.data"
    [] a = "V" -> "V.data"
    [] a = "W" -> "W.data"

\* Variant of TensorValue: what is held is handed out as it is.
TensorValue_raw(tv, T) == tv[T]

\* TensorArgument.value
TensorValue(tv, T) == IF IsNdarray(tv[T]) THEN tv[T] ELSE data(tv[T])

\* Variant of DimReset: the value survives the reset.
DimReset_keep(cur) == cur

\* DimensionArgProvider.reset: the class attribute _default_value, None.
DimReset(cur) == None

\* --------------------------------------------- DimensionArgProvider.verify
\* Variants of Settled: any value is accepted unmerged once one is held;
\* only the value already held is accepted without more ado.
Settled_both(cur, value) == value # None /\ cur # None

Settled_equal(cur, value) == value # None /\ value = cur

\* The two early returns: nothing to learn from None once a value is held,
\* nor from the value already held.
Settled(cur, value) ==
  \/ value = None /\ cur # None
  \/ value # None /\ value = cur

\* A dimension with a static size: value >= self.size.  py is the
\* interpreter's major version: None >= size is False under 2 and a
\* TypeError under 3.
StaticCheck(value, sz, py) ==
  IF value = None THEN (IF py = 2 THEN "False" ELSE "Raise")
  ELSE IF value >= sz THEN "True" ELSE "False"

\* Variants of Merged: the held value wins; the new value wins.
Merged_keep(cur, value) == IF cur # None THEN cur ELSE value

Merged_new(cur, value) == value

\* value = self.reducer(self._value, value) when both are set
Merged(cur, value) ==
  IF value # None /\ cur # None THEN reducer(cur, value) ELSE value

\* Variant of Adopted: the parent is never asked.
Adopted_never(merged, pvalue) == merged

\* "If I don't know my value, ask my parent": value = self.parent.value
Adopted(merged, pvalue) == IF merged = None THEN pvalue ELSE merged

\* s is the store the call works on: s.dv the dimensions' _value, s.av the
\* size arguments' _value, s.rt the rtargs caches.  The result is the store
\* after the call and what the call returned ("Raise": it raised instead).
RECURSIVE DimVerify(_, _, _, _, _)
DimVerify(s, sz, d, value, py) ==
  IF Settled(s.dv[d], value) THEN [s |-> s, ret |-> "True"]
  ELSE IF Size(sz, d) # None
  THEN [s |-> s, ret |-> StaticCheck(value, Size(sz, d), py)]
  ELSE
    LET merged == Merged(s.dv[d], value)
        p == IF HasParent(d) THEN DimVerify(s, sz, parent(d), merged, py)
             ELSE [s |-> s, ret |-> "True"]
        value1 == IF HasParent(d) THEN Adopted(merged, p.s.dv[parent(d)])
                  ELSE merged
    IN IF p.ret # "True" THEN p
       ELSE
         LET rt1 == RtargsAccess(p.s.rt, sz, d)
             av1 == IF rt1[d] = "arg"
                    THEN [p.s.av EXCEPT ![d] = ScalarVerify(@, value1)]
                    ELSE p.s.av
             ok == (rt1[d] = "arg") => ready(av1[d])
         IN [s |-> [dv |-> IF ok THEN [p.s.dv EXCEPT ![d] = value1]
                           ELSE p.s.dv,
                    av |-> av1, rt |-> rt1],
             ret |-> IF ok THEN "True" ELSE "False"]

\* ------------------------------------------------- TensorArgument.verify
\* [d.verify(v) for d, v in zip(source.indices, value.shape)]: every element
\* is evaluated, from position i on; ok is all(...) of the results so far.
\* The extents are numbers, so the interpreter's version plays no part.
RECURSIVE VerifyIndices(_, _, _, _, _, _)
VerifyIndices(s, sz, ds, ext, i, ok) ==
  IF i > Len(ds) \/ i > Len(ext) THEN [s |-> s, ok |-> ok]
  ELSE LET r == DimVerify(s, sz, ds[i], ext[i], 3)
       IN VerifyIndices(r.s, sz, ds, ext, i + 1, ok /\ r.ret = "True")

\* Variant of TensorVerify: the array is committed whatever the checks say.
TensorVerify_commit(s, sz, tv, T, value) ==
  LET v == IF value = NoArray THEN tv[T] ELSE value
      eq == shape(T) = shape(v)
      r == IF eq THEN VerifyIndices(s, sz, indices(T), shape(v), 1, TRUE)
           ELSE [s |-> s, ok |-> FALSE]
      verify == eq /\ r.ok
      tv1 == [tv EXCEPT ![T] = v]
  IN [s |-> r.s, tv |-> tv1,
      ret |-> IF tv1[T] # NoArray /\ verify THEN "True" ELSE "False"]

\* Variant of TensorVerify: the shapes are not compared.
TensorVerify_noshape(s, sz, tv, T, value) ==
  LET v == IF value = NoArray THEN tv[T] ELSE value
      r == VerifyIndices(s, sz, indices(T), shape(v), 1, TRUE)
      tv1 == IF r.ok THEN [tv EXCEPT ![T] = v] ELSE tv
  IN [s |-> r.s, tv |-> tv1,
      ret |-> IF tv1[T] # NoArray /\ r.ok THEN "True" ELSE "False"]

TensorVerify(s, sz, tv, T, value) ==
  LET v == IF value = NoArray THEN tv[T] ELSE value
      eq == shape(T) = shape(v)
      r == IF eq THEN VerifyIndices(s, sz, indices(T), shape(v), 1, TRUE)
           ELSE [s |-> s, ok |-> FALSE]
      verify == eq /\ r.ok
      tv1 == IF verify THEN [tv EXCEPT ![T] = v] ELSE tv
  IN [s |-> r.s, tv |-> tv1,
      ret |-> IF tv1[T] # NoArray /\ verify THEN "True" ELSE "False"]

\* ------------------------------------------------------------------ state
Store == [dv |-> dim_value, av |-> arg_value, rt |-> rtargs]

\* The last call made: its kind, its receiver, the number passed (None when
\* none), the array passed (NoArray when none) and the number the receiver
\* held when the call was made (None when unset or when it holds no number;
\* for ResetAll the largest number a dimension held) and the array it held
\* (NoArray when it holds no array).
Op(kind, who, val, arr, pre, held) ==
  [kind |-> kind, who |-> who, val |-> val, arr |-> arr, pre |-> pre,
   held |-> held]

\* The root of a dimension's parent chain.
root(d) ==
  IF HasParent(d) THEN parent(d)
  ELSE IF IsLowered(d) THEN parent(buffered(d))
  ELSE d

Larger(a, b) == IF a >= b THEN a ELSE b

\* obs after a verify has shown the number v (or None) to dimension d or to
\* its size argument: per root dimension, the largest number shown to it or
\* to a dimension over it since the last ResetAll.
Observe(o, d, v) == [o EXCEPT ![root(d)] = Larger(@, v)]

\* obs after a tensor verify: the extents of the array are shown to the
\* index dimensions when its shape is the source's (no dimension is asked
\* otherwise).
RECURSIVE ObserveExtents(_, _, _, _)
ObserveExtents(o, ds, ext, i) ==
  IF i > Len(ds) \/ i > Len(ext) THEN o
  ELSE ObserveExtents(Observe(o, ds[i], ext[i]), ds, ext, i + 1)

ObserveTensor(o, tv, T, value) ==
  LET v == IF value = NoArray THEN tv[T] ELSE value
  IN IF shape(T) = shape(v) THEN ObserveExtents(o, indices(T), shape(v), 1)
     ELSE o

\* ------------------------------------------------- the kernel invocation
\* Every provider of a scene surfaces its rtargs: the caches afterwards.
Surfaced(sc, rt, sz) ==
  [d \in Dims |-> IF d \in DimsOf(sc) THEN RtargsAccess(rt, sz, d)[d]
                  ELSE rt[d]]

\* The arguments a launch requires: the tensor argument of every field and
\* the size argument of every dimension whose rtargs holds one.  A size
\* argument goes by its dimension's name.
Required(sc, rt) ==
  TensorsOf(sc) \cup {d \in DimsOf(sc) : rt[d] = "arg"}

\* The launch attempt after verify of argument a has returned r: a true
\* verify is counted, a false one aborts the attempt; an attempt that is
\* aborted or has launched takes no further account.
Orchestrate(l, vs, a, r) ==
  IF l # "resolving" THEN [launch |-> l, verified |-> vs]
  ELSE IF r = "True" THEN [launch |-> l, verified |-> vs \cup {a}]
  ELSE [launch |-> "aborted", verified |-> {}]

\* An argument that is reset has to be verified again.
Unverify(vs, a) == vs \ {a}

\* time = Dimension('time'), x = Dimension('x'), t = BufferedDimension(...):
\* no static size, _value = _default_value = None, rtargs not yet computed;
\* a TensorArgument holds its source.
Constructed ==
  /\ size = [d \in RootDims |-> None]
  /\ reverse = [d \in RootDims |-> FALSE]
  /\ cls = [d \in Dims |-> IF HasParent(d) THEN "BufferedDimension"
                          ELSE IF IsLowered(d) THEN "LoweredDimension"
                          ELSE "Dimension"]
  /\ rtargs = [d \in Dims |-> "unset"]
  /\ dim_value = [d \in Dims |-> None]
  /\ arg_value = [d \in Dims |-> None]
  /\ tensor_value = [T \in Tensors |-> T]
  /\ op = Op("init", "", None, NoArray, None, NoArray)
  /\ ret = "NoRet"
  /\ obs = [d \in RootDims |-> None]
  /\ launch = IF scene = "kernel" THEN "resolving" ELSE "off"
  /\ verified = {}

Init ==
  /\ scene \in Scenes
  /\ Constructed
  /\ grid = "idle" /\ model = "idle" /\ world = "idle" /\ march = "idle"
  /\ yask = "idle"

\* The engine where only a consumer is exercised: its objects exist as
\* constructed and no call is made on them.
EngineIdle == scene = "none" /\ Constructed

\* ---------------------------------------------------------------- actions
\* d.rtargs[0].verify(value): a client binds the size argument directly.
VerifyScalar(d, value) ==
  LET rt1 == RtargsAccess(rtargs, size, d)
      new == ScalarVerify(arg_value[d], value)
  IN /\ rt1[d] = "arg"
     /\ rtargs' = rt1
     /\ arg_value' = [arg_value EXCEPT ![d] = new]
     /\ obs' = Observe(obs, d, value)
     /\ ret' = IF ready(new) THEN "True" ELSE "False"
     /\ LET o == Orchestrate(launch, verified, d,
                             IF ready(new) THEN "True" ELSE "False")
        IN launch' = o.launch /\ verified' = o.verified
     /\ op' = Op("VerifyScalar", d, value, NoArray, arg_value[d], NoArray)
     /\ UNCHANGED consumers
     /\ UNCHANGED <<scene, size, reverse, cls, dim_value, tensor_value>>

\* d.rtargs[0].reset()
ResetScalar(d) ==
  LET rt1 == RtargsAccess(rtargs, size, d)
  IN /\ rt1[d] = "arg"
     /\ rtargs' = rt1
     /\ arg_value' = [arg_value EXCEPT ![d] = ScalarReset(@)]
     /\ ret' = "NoRet"
     /\ UNCHANGED obs
     /\ verified' = Unverify(verified, d)
     /\ UNCHANGED launch
     /\ op' = Op("ResetScalar", d, None, NoArray, arg_value[d], NoArray)
     /\ UNCHANGED consumers
     /\ UNCHANGED <<scene, size, reverse, cls, dim_value, tensor_value>>

\* d.verify(value)
VerifyDimension(d, value, py) ==
  LET r == DimVerify(Store, size, d, value, py)
  IN /\ dim_value' = r.s.dv
     /\ arg_value' = r.s.av
     /\ rtargs' = r.s.rt
     /\ obs' = Observe(obs, d, value)
     /\ ret' = r.ret
     /\ UNCHANGED <<launch, verified>>
     /\ op' = Op("VerifyDimension", d, value, NoArray, dim_value[d], NoArray)
     /\ UNCHANGED consumers
     /\ UNCHANGED <<scene, size, reverse, cls, tensor_value>>

\* d.reset()
ResetDimension(d) ==
  /\ dim_value' = [dim_value EXCEPT ![d] = DimReset(@)]
  /\ ret' = "NoRet"
  /\ UNCHANGED obs
  /\ UNCHANGED <<launch, verified>>
  /\ op' = Op("ResetDimension", d, None, NoArray, dim_value[d], NoArray)
  /\ UNCHANGED consumers
  /\ UNCHANGED <<scene, size, reverse, cls, rtargs, arg_value, tensor_value>>

\* T.rtargs[0].verify(value)
VerifyTensor(T, value) ==
  LET r == TensorVerify(Store, size, tensor_value, T, value)
  IN /\ dim_value' = r.s.dv
     /\ arg_value' = r.s.av
     /\ rtargs' = r.s.rt
     /\ tensor_value' = r.tv
     /\ obs' = ObserveTensor(obs, tensor_value, T, value)
     /\ ret' = r.ret
     /\ LET o == Orchestrate(launch, verified, T, r.ret)
        IN launch' = o.launch /\ verified' = o.verified
     /\ op' = Op("VerifyTensor", T, None, value, None, tensor_value[T])
     /\ UNCHANGED consumers
     /\ UNCHANGED <<scene, size, reverse, cls>>

\* T.rtargs[0].reset(): _default_value is the source
ResetTensor(T) ==
  /\ tensor_value' = [tensor_value EXCEPT ![T] = TensorReset(T, @)]
  /\ ret' = "NoRet"
  /\ UNCHANGED obs
  /\ verified' = Unverify(verified, T)
  /\ UNCHANGED launch
  /\ op' = Op("ResetTensor", T, None, NoArray, None, tensor_value[T])
  /\ UNCHANGED consumers
  /\ UNCHANGED <<scene, size, reverse, cls, rtargs, dim_value, arg_value>>

\* d.size = s.  On a Dimension the setter switches the class: a number makes
\* the object a FixedDimension and stores the number; None re-enters the
\* setter without end (RecursionError) before anything is changed.  On a
\* FixedDimension size is a plain attribute.  A BufferedDimension redefines
\* size as a property without setter (AttributeError).
SetSize(d, s) ==
  /\ op' = Op("SetSize", d, s, NoArray, Size(size, d), NoArray)
  /\ IF cls[d] = "FixedDimension"
     THEN /\ size' = [size EXCEPT ![d] = s]
          /\ ret' = "NoRet"
          /\ UNCHANGED cls
     ELSE IF cls[d] = "Dimension" /\ s # None
     THEN /\ cls' = [cls EXCEPT ![d] = "FixedDimension"]
          /\ size' = [size EXCEPT ![d] = s]
          /\ ret' = "NoRet"
     ELSE /\ ret' = "Raise"
          /\ UNCHANGED <<size, cls>>
  /\ UNCHANGED consumers
  /\ UNCHANGED <<scene, reverse, rtargs, dim_value, arg_value, tensor_value,
               obs, launch, verified>>

\* d.reverse = b.  On a root dimension reverse is a plain attribute; a
\* BufferedDimension and a LoweredDimension redefine it as a property
\* without setter (AttributeError).
SetReverse(d, b) ==
  /\ op' = Op("SetReverse", d, None, NoArray, None, NoArray)
  /\ IF d \in RootDims
     THEN /\ reverse' = [reverse EXCEPT ![d] = b]
          /\ ret' = "NoRet"
     ELSE /\ ret' = "Raise"
          /\ UNCHANGED reverse
  /\ UNCHANGED consumers
  /\ UNCHANGED <<scene, size, cls, rtargs, dim_value, arg_value, tensor_value,
                 obs, launch, verified>>

\* A client calls the unimplemented method m of a base-class object.
CallAbstract(m) ==
  /\ ret' = AbstractCall(m)
  /\ op' = Op("CallAbstract", m, None, NoArray, None, NoArray)
  /\ UNCHANGED consumers
  /\ UNCHANGED <<scene, size, reverse, cls, rtargs, dim_value, arg_value,
                 tensor_value, obs, launch, verified>>

\* d.rtargs: a client reads the dimension's runtime arguments.
ReadRtargs(d) ==
  /\ rtargs' = RtargsAccess(rtargs, size, d)
  /\ ret' = "NoRet"
  /\ op' = Op("ReadRtargs", d, None, NoArray, None, NoArray)
  /\ UNCHANGED consumers
  /\ UNCHANGED <<scene, size, reverse, cls, dim_value, arg_value,
                 tensor_value, obs, launch, verified>>

\* The reset between two kernel invocations: reset() on every dimension, on
\* every argument of every dimension's rtargs and on every tensor argument.
\* A new resolution pass starts here: nothing has been observed in it yet.
ResetAll ==
  LET ds == DimsOf(scene)
      RECURSIVE AccessAll(_, _)
      AccessAll(rt, todo) ==
        IF todo = {} THEN rt
        ELSE LET d == CHOOSE e \in todo : TRUE
             IN AccessAll(RtargsAccess(rt, size, d), todo \ {d})
      rt1 == AccessAll(rtargs, ds)
      held == CHOOSE v \in {dim_value[d] : d \in ds} :
                \A w \in {dim_value[d] : d \in ds} : v >= w
  IN /\ rtargs' = rt1
     /\ dim_value' = [d \in Dims |->
                        IF d \in ds THEN DimReset(dim_value[d])
                        ELSE dim_value[d]]
     /\ arg_value' = [d \in Dims |->
                        IF d \in ds /\ rt1[d] = "arg"
                        THEN ScalarReset(arg_value[d]) ELSE arg_value[d]]
     /\ tensor_value' = [T \in Tensors |->
                           IF T \in TensorsOf(scene)
                           THEN TensorReset(T, tensor_value[T])
                           ELSE tensor_value[T]]
     /\ obs' = [d \in RootDims |-> None]
     /\ ret' = "NoRet"
     /\ launch' = IF launch = "off" THEN "off" ELSE "resolving"
     /\ verified' = {}
     /\ op' = Op("ResetAll", "", None, NoArray, held, NoArray)
     /\ UNCHANGED consumers
     /\ UNCHANGED <<scene, size, reverse, cls>>

\* The kernel is launched: the attempt has not been aborted, every required
\* argument has been verified and reports ready.
Launch ==
  LET rt1 == Surfaced(scene, rtargs, size)
      req == Required(scene, rt1)
  IN /\ launch = "resolving"
     /\ rtargs' = rt1
     /\ req \subseteq verified
     /\ \A T \in req \cap Tensors : tensor_value[T] # NoArray
     /\ \A d \in req \cap Dims : ready(arg_value[d])
     /\ launch' = "launched"
     /\ ret' = "NoRet"
     /\ op' = Op("Launch", "", None, NoArray, None, NoArray)
     /\ UNCHANGED consumers
     /\ UNCHANGED <<scene, size, reverse, cls, dim_value, arg_value,
                    tensor_value, obs, verified>>

Next ==
  \/ \E d \in DirectDims(scene), v \in DirectVals \cup {None} :
        VerifyScalar(d, v)
  \/ \E d \in DimsOf(scene) : ResetScalar(d)
  \/ \E d \in DirectDims(scene), v \in DirectVals \cup {None}, py \in {2, 3} :
        VerifyDimension(d, v, py)
  \/ \E d \in DimsOf(scene) : ResetDimension(d)
  \/ \E T \in TensorsOf(scene), a \in ArraysOf(scene) \cup {NoArray} :
        VerifyTensor(T, a)
  \/ \E T \in TensorsOf(scene) : ResetTensor(T)
  \/ \E d \in DimsOf(scene), s \in SizeVals : SetSize(d, s)
  \/ \E d \in ReverseDims(scene), b \in BOOLEAN : SetReverse(d, b)
  \/ \E d \in DimsOf(scene) : ReadRtargs(d)
  \/ ResetAll
  \/ Launch
  \/ \E m \in AbstractOf(scene) : CallAbstract(m)

Spec == Init /\ [][Next]_vars

\* ------------------------------------------------------ resolution passes
\* The scenes whose dimensions are shown numbers in a pass.
PassScenes == {"shared", "timed", "field"}

InitPass ==
  /\ scene \in PassScenes
  /\ Constructed
  /\ grid = "idle" /\ model = "idle" /\ world = "idle" /\ march = "idle"
  /\ yask = "idle"

\* A pass: verify with a number on a dimension, verify of a tensor argument
\* with an array or with its own source, a read of a dimension's runtime
\* arguments; the reset of everything ends it.
NextPass ==
  \/ \E d \in DirectDims(scene), v \in DirectVals, py \in {2, 3} :
        VerifyDimension(d, v, py)
  \/ \E T \in TensorsOf(scene), a \in ArraysOf(scene) \cup {NoArray} :
        VerifyTensor(T, a)
  \/ \E d \in DimsOf(scene) : ReadRtargs(d)
  \/ ResetAll

SpecPass == InitPass /\ [][NextPass]_vars

\* ------------------------------------------------------------------- Grid
\* Largest number of axes of a shape, extent, origin or pool of dimensions.
MaxDim == 4

\* Grid points per axis, and extents and origins per axis in m.
ShapeVals == {2, 101}

ExtentVals == {1, 4}

OriginVals == {0}

\* The tuples of at most n elements of S.
Tuples(S, n) == UNION {[1..k -> S] : k \in 0..n}

\* An optional argument: not given (None), or given with a tuple.
Absent == [given |-> FALSE, val |-> <<>>]

Given(v) == [given |-> TRUE, val |-> v]

\* arg or default: None and the empty tuple are both false.
Or(arg, default) ==
  IF arg.given /\ arg.val # <<>> THEN arg.val ELSE default

\* The default pool (x, y, z), and the pools a client provides.
DefaultPool == <<"x", "y", "z">>

Pools == {<<>>, <<"x">>, <<"y", "x">>, <<"p", "q", "r", "s", "u">>}

RECURSIVE GCD(_, _)
GCD(a, b) == IF b = 0 THEN a ELSE GCD(b, a % b)

\* a / b of two positive numbers, as a fraction in lowest terms.
Frac(a, b) == <<a \div GCD(a, b), b \div GCD(a, b)>>

\* Grid.spacing: np.array(extent) / np.array(shape), elementwise
spacing(extent, shp) == [i \in 1..Len(shp) |-> Frac(extent[i], shp[i])]

\* seq[:n]
Prefix(seq, n) == SubSeq(seq, 1, IF n <= Len(seq) THEN n ELSE Len(seq))

NoGrid ==
  [shape |-> <<>>, extent |-> <<>>, origin |-> <<>>, spacing |-> <<>>,
   dimensions |-> <<>>]

\* Grid.__init__(shape, extent, origin, dimensions): the outcome and the
\* attributes of the Grid.  The comparisons of the assert are chained:
\* spacing is computed only when the three lengths before it are equal, and
\* has that length then.
GridNew(shp, extent, origin, dimensions) ==
  LET ext == Or(extent, [i \in 1..Len(shp) |-> 1])
      org == Or(origin, [i \in 1..Len(shp) |-> 0])
      dim == Len(shp)
  IN IF ~(dim = Len(org) /\ Len(org) = Len(ext)
            /\ Len(ext) = Len(spacing(ext, shp)))
     THEN [status |-> "AssertionError", self |-> NoGrid]
     ELSE [status |-> "Grid",
           self |-> [shape |-> shp, extent |-> ext, origin |-> org,
                     spacing |-> spacing(ext, shp),
                     dimensions |-> Prefix(Or(dimensions, DefaultPool), dim)]]

\* A client is about to construct a Grid from some arguments.
InitGrid ==
  /\ EngineIdle
  /\ \E shp \in Tuples(ShapeVals, MaxDim),
        extent \in {Absent} \cup {Given(e) : e \in Tuples(ExtentVals, MaxDim)},
        origin \in {Absent} \cup {Given(o) : o \in Tuples(OriginVals, MaxDim)},
        dimensions \in {Absent} \cup {Given(q) : q \in Pools} :
        grid = [status |-> "args", shape |-> shp, extent |-> extent,
                origin |-> origin, dimensions |-> dimensions,
                self |-> NoGrid]
  /\ model = "idle" /\ world = "idle" /\ march = "idle" /\ yask = "idle"

\* Grid(shape, extent, origin, dimensions)
Construct ==
  /\ grid.status = "args"
  /\ LET g == GridNew(grid.shape, grid.extent, grid.origin, grid.dimensions)
     IN grid' = [grid EXCEPT !.status = g.status, !.self = g.self]
  /\ UNCHANGED <<engine, model, world, march, yask>>

NextGrid == Construct

SpecGrid == InitGrid /\ [][NextGrid]_vars

\* ------------------------------------------------------------------ Model
\* Largest number of boundary layers (nbpml) of a Model.
MaxPml == 2

\* The shapes a Model is constructed with.
ModelShapes == {<<2, 3>>, <<3, 3, 3>>}

\* The velocities a client passes: the scalars "s1" and "s2", the arrays
\* "va" and "vb" of the model's shape and the array "vw" of another shape.
Vels == {"s1", "s2", "va", "vb", "vw"}

\* isinstance(vp, np.ndarray)
IsArray(v) == v \in {"va", "vb", "vw"}

\* v.shape of an array velocity passed to a model of shape shp
VelShape(v, shp) ==
  IF v = "vw" THEN [i \in 1..Len(shp) |-> shp[i] + 1] ELSE shp

\* How epsilon, delta, theta and phi are passed: not at all, as a scalar or
\* as an array of the model's shape.
ParamKinds == {"None", "scalar", "array"}

Params == {"epsilon", "delta", "theta", "phi"}

\* Variant of shape_domain: the boundary layers are left out.
shape_domain_bare(shp, nbpml) == shp

\* Model.shape_domain
shape_domain(shp, nbpml) == [i \in 1..Len(shp) |-> shp[i] + 2 * nbpml]

\* Model.pad(data): the shape of np.pad(data, [(nbpml, nbpml), ...], 'edge')
pad(shp, nbpml) == [i \in 1..Len(shp) |-> shp[i] + nbpml + nbpml]

\* A field of the model: a DenseData of some shape, a ConstantData, a plain
\* number, or nothing.  data is the shape of what .data holds (<<>> for a
\* number) and of the velocity the content was computed from ("none" when
\* the content was not computed from a velocity).
NoField == [kind |-> "None", shape |-> <<>>, data |-> <<>>, of |-> "none"]

\* DenseData(name=..., shape=shp, dtype=...)
DenseData(shp) ==
  [kind |-> "Dense", shape |-> shp, data |-> shp, of |-> "none"]

\* ConstantData(name="m", value=1/vp**2, dtype=...)
ConstantData(v) ==
  [kind |-> "Constant", shape |-> <<>>, data |-> <<>>, of |-> v]

Number == [kind |-> "scalar", shape |-> <<>>, data |-> <<>>, of |-> "none"]

\* What a DenseData makes of "self.m.data = number" when it is asked to:
\* data is a read-only property (AttributeError), or data is rebound.
DataAssignments == {"AttributeError", "rebound"}

\* The vp setter after self._vp = vp: the slowness field m and the outcome.
\* An array is padded and copied into m.data[:], which takes it when m is a
\* DenseData and the padded shape is that of the data, and raises when the
\* shapes differ or when m is a ConstantData (its data is a number and
\* supports no item assignment).  A number is assigned to m.data, which a
\* ConstantData takes; how is what a DenseData makes of it.
VpSetter(m, shp, nbpml, v, how) ==
  IF IsArray(v)
  THEN IF m.kind = "Dense" /\ pad(VelShape(v, shp), nbpml) = m.data
       THEN [m |-> [m EXCEPT !.of = v], ret |-> "NoRet"]
       ELSE [m |-> m, ret |-> "Raise"]
  ELSE IF m.kind = "Constant"
       THEN [m |-> [m EXCEPT !.of = v], ret |-> "NoRet"]
       ELSE IF how = "rebound"
       THEN [m |-> [m EXCEPT !.data = <<>>, !.of = v], ret |-> "NoRet"]
       ELSE [m |-> m, ret |-> "Raise"]

\* epsilon, delta, theta or phi as Model.__init__ stores it
ParamField(kind, shp, nbpml) ==
  IF kind = "array" THEN DenseData(shape_domain(shp, nbpml)) ELSE Number

NoFields == [f \in {"m", "damp"} \cup Params |-> NoField]

\* A client is about to construct a Model from some arguments.
InitModel ==
  /\ EngineIdle
  /\ \E shp \in ModelShapes, nbpml \in 0..MaxPml, v \in Vels,
        kinds \in [Params -> ParamKinds] :
        model = [status |-> "args", shape |-> shp, nbpml |-> nbpml,
                 vp0 |-> v, kinds |-> kinds, vp |-> "none",
                 fields |-> NoFields, ret |-> "NoRet"]
  /\ grid = "idle" /\ world = "idle" /\ march = "idle" /\ yask = "idle"

\* Model(origin, spacing, shape, vp, nbpml, epsilon, delta, theta, phi): m
\* is allocated by the kind of vp, the vp setter fills it, damp and the
\* parameters given as arrays are allocated over shape_domain.
ModelNew ==
  /\ model.status = "args"
  /\ LET shp == model.shape
         n == model.nbpml
         m0 == IF IsArray(model.vp0) THEN DenseData(shape_domain(shp, n))
               ELSE ConstantData(model.vp0)
         r == VpSetter(m0, shp, n, model.vp0, "AttributeError")
     IN IF r.ret = "Raise"
        THEN model' = [model EXCEPT !.status = "Raise", !.ret = "Raise"]
        ELSE model' =
               [model EXCEPT
                  !.status = "Model",
                  !.vp = model.vp0,
                  !.fields =
                     [f \in {"m", "damp"} \cup Params |->
                        IF f = "m" THEN r.m
                        ELSE IF f = "damp"
                        THEN DenseData(shape_domain(shp, n))
                        ELSE ParamField(model.kinds[f], shp, n)]]
  /\ UNCHANGED <<engine, grid, world, march, yask>>

\* model.vp = v
SetVp(v, how) ==
  /\ model.status = "Model"
  /\ LET r == VpSetter(model.fields["m"], model.shape, model.nbpml, v, how)
     IN model' = [model EXCEPT !.vp = v, !.fields["m"] = r.m,
                               !.ret = r.ret]
  /\ UNCHANGED <<engine, grid, world, march, yask>>

NextModel ==
  \/ ModelNew
  \/ \E v \in Vels, how \in DataAssignments : SetVp(v, how)

SpecModel == InitModel /\ [][NextModel]_vars

\* ------------------------------------------- data objects and dimensions
\* Largest number of dimension objects created after the default ones, and
\* of data objects constructed.
MaxLater == 2

MaxData == 2

\* The dimension objects are numbered in the order of their creation; the
\* default dimensions x, y and z of dimension.py are the objects 1, 2, 3.
DefaultObjs == <<"x", "y", "z">>

\* The names under which a client creates dimensions of its own.
LaterNames == {"x", "y"}

\* Variant of Indices: the default dimensions are looked up under their
\* names at construction.
Indices_byname(given, dims, n, x_now) ==
  IF given THEN dims
  ELSE [i \in 1..n |-> IF i = 1 THEN x_now ELSE i]

\* The indices of DenseData(name, dimensions=dims) and of DenseData(name,
\* shape=...) with n axes: the very objects passed, or the first n default
\* dimensions as imported from dimension.py.
Indices(given, dims, n, x_now) ==
  IF given THEN dims ELSE [i \in 1..n |-> i]

InitData ==
  /\ EngineIdle
  /\ world = [objs |-> DefaultObjs, x |-> 1, data |-> <<>>]
  /\ grid = "idle" /\ model = "idle" /\ march = "idle" /\ yask = "idle"

\* FixedDimension(name=name, size=10): a new dimension object
NewDimension(name) ==
  /\ Len(world.objs) < Len(DefaultObjs) + MaxLater
  /\ world' = [world EXCEPT !.objs = Append(@, name)]
  /\ UNCHANGED <<engine, grid, model, march, yask>>

\* devito.x = o for a dimension object o named x
RebindX(o) ==
  /\ world.objs[o] = "x"
  /\ world.x # o
  /\ world' = [world EXCEPT !.x = o]
  /\ UNCHANGED <<engine, grid, model, march, yask>>

\* DenseData(name=..., dimensions=dims)
NewDataExplicit(dims) ==
  /\ Len(world.data) < MaxData
  /\ world' = [world EXCEPT !.data =
                 Append(@, [given |-> TRUE, dims |-> dims,
                            indices |-> Indices(TRUE, dims, Len(dims),
                                                world.x)])]
  /\ UNCHANGED <<engine, grid, model, march, yask>>

\* DenseData(name=..., shape=...) with n axes
NewDataDefault(n) ==
  /\ Len(world.data) < MaxData
  /\ world' = [world EXCEPT !.data =
                 Append(@, [given |-> FALSE, dims |-> <<>>,
                            indices |-> Indices(FALSE, <<>>, n, world.x)])]
  /\ UNCHANGED <<engine, grid, model, march, yask>>

NextData ==
  \/ \E name \in LaterNames : NewDimension(name)
  \/ \E o \in 1..Len(world.objs) : RebindX(o)
  \/ \E a, b \in 1..Len(world.objs) : NewDataExplicit(<<a, b>>)
  \/ \E n \in 1..Len(DefaultObjs) : NewDataDefault(n)

SpecData == InitData /\ [][NextData]_vars

\* ------------------------------------------------------------ time marching
\* The number of saved time steps of the time data a and b (time_dim).
TimeDim == 6

\* The values written into the first or last step before an operator runs.
StartVals == {1, 2, 7}

Steps == 0..(TimeDim - 1)

\* The runs: a.forward = a + 1 marching forward, b.backward = b - 1 marching
\* backward, and a.forward = a + 1 forward followed by b = a + 1 backward.
Runs == {"forward", "backward", "forward_backward"}

Ascending(lo, hi) == [k \in 1..(hi - lo + 1) |-> lo + k - 1]

Descending(lo, hi) == [k \in 1..(hi - lo + 1) |-> hi - k + 1]

\* Variant of Iterations: the time loop always ascends.
Iterations_ascending(time_axis, lo, hi) == Ascending(lo, hi)

\* The time steps an operator visits, in order: lo..hi for Forward, hi down
\* to lo for Backward.
Iterations(time_axis, lo, hi) ==
  IF time_axis = "Forward" THEN Ascending(lo, hi) ELSE Descending(lo, hi)

\* A buffer of TimeDim saved steps, zero but for one step.
Zeros(at, v) == [i \in Steps |-> IF i = at THEN v ELSE 0]

\* Operator(eq, time_axis=...)(time=nt): the equation and the steps to visit.
\* A forward stencil writes step t + 1 and a backward one step t - 1, so the
\* loop stops one step short of the end it marches toward.
Operator(eq, time_axis, nt) ==
  [eq |-> eq, axis |-> time_axis,
   todo |-> CASE eq = "a.forward = a + 1" ->
                   Iterations(time_axis, 0, nt - 2)
              [] eq = "b.backward = b - 1" ->
                   Iterations(time_axis, 1, nt - 1)
              [] OTHER -> Iterations(time_axis, 0, nt - 1),
   written |-> <<>>]

InitMarch ==
  /\ EngineIdle
  /\ \E run \in Runs, start \in StartVals, nt \in 2..TimeDim :
        /\ run # "forward_backward" => nt = TimeDim
        /\ march = [run |-> run, start |-> start, nt |-> nt,
                    a |-> Zeros(0, start),
                    b |-> IF run = "backward"
                          THEN Zeros(TimeDim - 1, start)
                          ELSE Zeros(0, start),
                    op |-> IF run = "backward"
                           THEN Operator("b.backward = b - 1", "Backward", nt)
                           ELSE Operator("a.forward = a + 1", "Forward", nt),
                    ops |-> IF run = "forward_backward" THEN 1 ELSE 0]
  /\ grid = "idle" /\ model = "idle" /\ world = "idle" /\ yask = "idle"

\* The operator's record once the step at the head of todo has written step w.
Visited(o, w) ==
  [o EXCEPT !.todo = Tail(@), !.written = Append(@, w)]

\* one iteration of a.forward = a + 1
StepForward ==
  /\ march.op.eq = "a.forward = a + 1"
  /\ march.op.todo # <<>>
  /\ LET t == Head(march.op.todo) IN
       march' = [march EXCEPT !.a[t + 1] = march.a[t] + 1,
                              !.op = Visited(@, t + 1)]
  /\ UNCHANGED <<engine, grid, model, world, yask>>

\* one iteration of b.backward = b - 1
StepBackward ==
  /\ march.op.eq = "b.backward = b - 1"
  /\ march.op.todo # <<>>
  /\ LET t == Head(march.op.todo) IN
       march' = [march EXCEPT !.b[t - 1] = march.b[t] - 1,
                              !.op = Visited(@, t - 1)]
  /\ UNCHANGED <<engine, grid, model, world, yask>>

\* one iteration of b = a + 1
StepCopy ==
  /\ march.op.eq = "b = a + 1"
  /\ march.op.todo # <<>>
  /\ LET t == Head(march.op.todo) IN
       march' = [march EXCEPT !.b[t] = march.a[t] + 1,
                              !.op = Visited(@, t)]
  /\ UNCHANGED <<engine, grid, model, world, yask>>

\* the forward operator has returned: Operator(Eq(b, a + 1.),
\* time_axis=Backward)(time=nt)
RunSecond ==
  /\ march.ops > 0
  /\ march.op.todo = <<>>
  /\ march' = [march EXCEPT !.op = Operator("b = a + 1", "Backward", march.nt),
                            !.ops = @ - 1]
  /\ UNCHANGED <<engine, grid, model, world, yask>>

NextMarch == StepForward \/ StepBackward \/ StepCopy \/ RunSecond

SpecMarch == InitMarch /\ [][NextMarch]_vars

\* ---------------------------------------------------------- YASK allocation
\* The contexts yask_context can return, with their dimensions and space
\* dimensions.
Contexts == {"c2", "c3"}

ContextDimensions(c) ==
  IF c = "c2" THEN <<"t", "x", "y">> ELSE <<"t", "x", "y", "z">>

ContextSpaceDimensions(c) ==
  IF c = "c2" THEN <<"x", "y">> ELSE <<"x", "y", "z">>

\* The names of the data objects allocated, and the names of their indices.
DataNames == {"u", "v", "m"}

IndexNames ==
  {<<"x", "y">>, <<"t", "x", "y">>, <<"time", "x", "y">>,
   <<"x", "y", "z">>, <<"p">>}

\* Variant of NameTaken: the sanity check never finds the name.
NameTaken_never(name, grids) == FALSE

\* self.name in context.grids
NameTaken(name, grids) == name \in grids

\* dimensions in [context.dimensions, context.space_dimensions]
IsDense(dimensions, c) ==
  dimensions \in {ContextDimensions(c), ContextSpaceDimensions(c)}

\* What _allocate_memory does for a data object of this name and these index
\* names in context c: exit, make a grid, or allocate plainly.
AllocateMemory(name, dimensions, c, grids) ==
  IF NameTaken(name, grids) THEN "exit"
  ELSE IF IsDense(dimensions, c) THEN "make_grid"
  ELSE "plain"

InitYask ==
  /\ EngineIdle
  /\ yask = [grids |-> [c \in Contexts |-> {}],
             made |-> [c \in Contexts |-> [n \in DataNames |-> 0]],
             plain |-> {},
             last |-> [name |-> "", dimensions |-> <<>>, context |-> "",
                       did |-> "none"]]
  /\ grid = "idle" /\ model = "idle" /\ world = "idle" /\ march = "idle"

\* DenseData(name=name, ...)._allocate_memory(), with dimensions the names of
\* its indices and c the context yask_context returns for it. exit ends the
\* process: nothing is allocated after it.
Allocate(name, dimensions, c) ==
  /\ yask.last.did # "exit"
  /\ LET did == AllocateMemory(name, dimensions, c, yask.grids[c]) IN
       yask' = [grids |-> IF did = "make_grid"
                          THEN [yask.grids EXCEPT ![c] = @ \cup {name}]
                          ELSE yask.grids,
                made |-> IF did = "make_grid"
                         THEN [yask.made EXCEPT ![c][name] = @ + 1]
                         ELSE yask.made,
                plain |-> IF did = "plain"
                          THEN yask.plain \cup {name}
                          ELSE yask.plain,
                last |-> [name |-> name, dimensions |-> dimensions,
                          context |-> c, did |-> did]]
  /\ UNCHANGED <<engine, grid, model, world, march>>

NextYask ==
  \E name \in DataNames, dimensions \in IndexNames, c \in Contexts :
     Allocate(name, dimensions, c)

SpecYask == InitYask /\ [][NextYask]_vars

\* ----------------------------------------------------------------- claims
IsVerify(k) == k \in {"VerifyScalar", "VerifyDimension", "VerifyTensor"}

\* d has no static size: it is Open
IsOpen(d) == Size(size, d) = None

\* C1: a ScalarArgument.verify with a non-null value returns true; it adopts
\* the value as it is when the argument was unset and leaves the larger of
\* the held and the new value otherwise, so that verify(v1) then verify(v2)
\* from unset leaves max(v1, v2).
C1_ScalarVerifyMerges ==
  (op.kind = "VerifyScalar" /\ op.val # None) =>
     /\ ret = "True"
     /\ arg_value[op.who] = IF op.pre = None THEN op.val
                            ELSE Larger(op.pre, op.val)

\* verify(2) then verify(1): the argument holds 2
C1_Witness ==
  /\ op.kind = "VerifyScalar" /\ op.pre = 2 /\ op.val = 1
  /\ arg_value[op.who] = 2 /\ ret = "True"

\* C2: TensorArgument.verify with an array whose shape is not the source's
\* returns false and leaves the held value as it was.
C2_ShapeMismatchRejected ==
  (op.kind = "VerifyTensor" /\ op.arr # NoArray
     /\ shape(op.arr) # shape(op.who)) =>
     /\ ret = "False"
     /\ tensor_value[op.who] = op.held

\* A holds the external array and is shown B's source, of another shape
C2_Witness ==
  /\ op.kind = "VerifyTensor" /\ op.who = "A" /\ op.arr = "B"
  /\ op.held = "ext" /\ tensor_value["A"] = "ext" /\ ret = "False"

\* C3: a TensorArgument.verify that returns false has changed nothing: not
\* the held array, nor the value of any dimension or of any size argument.
C3_AllOrNothing ==
  [][(op'.kind = "VerifyTensor" /\ ret' = "False") =>
       /\ tensor_value' = tensor_value
       /\ dim_value' = dim_value
       /\ arg_value' = arg_value]_vars

\* C4: on an Open dimension, verify with a non-null value that is not below
\* the value held (or with nothing held yet) returns true and leaves the
\* dimension at that value: increasing observations converge to the largest.
C4_IncreasingConverges ==
  (op.kind = "VerifyDimension" /\ op.val # None /\ IsOpen(op.who)
     /\ (op.pre = None \/ op.val >= op.pre)) =>
     /\ ret = "True"
     /\ dim_value[op.who] = op.val

\* t held 1 and was shown 2
C4_Witness ==
  /\ op.kind = "VerifyDimension" /\ op.who = "t" /\ IsOpen("t")
  /\ op.pre = 1 /\ op.val = 2 /\ dim_value["t"] = 2 /\ ret = "True"

\* C5: a verify call never lowers nor unsets the value a dimension holds.
C5_NeverShrinks ==
  [][IsVerify(op'.kind) =>
       \A d \in Dims : dim_value[d] # None =>
          /\ dim_value'[d] # None
          /\ dim_value'[d] >= dim_value[d]]_vars

\* x held 2 and was shown 1: it still holds 2
C5_Witness ==
  /\ op.kind = "VerifyDimension" /\ op.who = "x" /\ IsOpen("x")
  /\ op.pre = 2 /\ op.val = 1 /\ dim_value["x"] = 2 /\ ret = "True"

\* C6: on a dimension with static size S, verify with a non-null value v
\* returns true exactly when v >= S, whatever the dimension holds; the
\* field V of extent 8 is rejected along x of size 10 and the field W of
\* extent 12 is accepted.
C6_SizeIsFloor ==
  /\ (op.kind = "VerifyDimension" /\ op.val # None /\ ~IsOpen(op.who)) =>
        (ret = "True" <=> op.val >= Size(size, op.who))
  /\ (op.kind = "VerifyTensor" /\ op.who = "V" /\ size["x"] = StaticSize) =>
        ret = "False"
  /\ (op.kind = "VerifyTensor" /\ op.who = "W" /\ op.arr \in {"W", NoArray}
        /\ size["x"] = StaticSize) => ret = "True"

\* C7: x is Open and shared by A of shape (40,) and B of shape (50,).  A
\* verify of B with an array of its shape leaves x at 50, and a verify of A
\* after it keeps x at 50; both calls return true and both arguments are
\* ready.
C7_SharedDimensionMax ==
  [][\A a \in {"A", "B", "ext", NoArray} :
       /\ (op'.kind = "VerifyTensor" /\ IsOpen("x") /\ a \in {"B", NoArray}
             /\ VerifyTensor("B", a)) =>
             /\ dim_value'["x"] = 50 /\ ret' = "True"
             /\ tensor_value'["A"] # NoArray /\ tensor_value'["B"] # NoArray
       /\ (op'.kind = "VerifyTensor" /\ IsOpen("x") /\ a # "B"
             /\ dim_value["x"] = 50 /\ VerifyTensor("A", a)) =>
             /\ dim_value'["x"] = 50 /\ ret' = "True"
             /\ tensor_value'["A"] # NoArray /\ tensor_value'["B"] # NoArray]_vars

\* B was verified, then A: x is 50 and so is its size argument
C7_Witness ==
  /\ scene = "shared" /\ op.kind = "VerifyTensor" /\ op.who = "A"
  /\ IsOpen("x") /\ obs["x"] = 50 /\ dim_value["x"] = 50
  /\ arg_value["x"] = 50 /\ ret = "True"

\* C8 as stated: a dimension that holds a value and is verified with another
\* non-null value reports a failure and keeps the value it held.
C8_ConflictRejected ==
  (op.kind = "VerifyDimension" /\ op.pre # None /\ op.val # None
     /\ op.val # op.pre) =>
     /\ ret = "False"
     /\ dim_value[op.who] = op.pre

\* C8 amended: a dimension that holds a value and is verified with another
\* non-null value never takes a smaller value.  Without a static size the
\* call returns true and the dimension holds the larger of the two; with a
\* static size the held value stays and the call returns true exactly when
\* the new value is not below the size.
C8_ConflictMerged ==
  (op.kind = "VerifyDimension" /\ op.pre # None /\ op.val # None
     /\ op.val # op.pre) =>
     IF IsOpen(op.who)
     THEN ret = "True" /\ dim_value[op.who] = Larger(op.pre, op.val)
     ELSE /\ dim_value[op.who] = op.pre
          /\ (ret = "True" <=> op.val >= Size(size, op.who))

\* time held 1 and was shown 2: the call succeeded and time holds 2
C8_Witness ==
  /\ op.kind = "VerifyDimension" /\ op.who = "time" /\ IsOpen("time")
  /\ op.pre = 1 /\ op.val = 2 /\ dim_value["time"] = 2 /\ ret = "True"

\* What the calls read and write apart from the record of the last call.
held_state ==
  <<size, reverse, cls, rtargs, dim_value, arg_value, tensor_value>>

\* C9: reset() of a size argument leaves it unset and reset() of a tensor
\* argument leaves it holding its source, whatever they held; a second
\* reset() right after the first changes nothing.
C9_ResetRestoresDefault ==
  [][/\ \A d \in Dims : ResetScalar(d) =>
          /\ arg_value'[d] = None
          /\ (op.kind = "ResetScalar" /\ op.who = d) => UNCHANGED held_state
     /\ \A T \in Tensors : ResetTensor(T) =>
          /\ tensor_value'[T] = T
          /\ (op.kind = "ResetTensor" /\ op.who = T) => UNCHANGED held_state
    ]_vars

\* a size argument that held 2 has been reset
C9_Witness ==
  /\ op.kind = "ResetScalar" /\ op.pre = 2 /\ arg_value[op.who] = None

C11_SettledIsNoOp ==
  [][\A d \in Dims, v \in DirectVals \cup {None}, py \in {2, 3} :
       (op'.kind = "VerifyDimension" /\ IsOpen(d) /\ dim_value[d] # None
          /\ (v = None \/ v = dim_value[d]) /\ VerifyDimension(d, v, py)) =>
          /\ ret' = "True"
          /\ UNCHANGED held_state]_vars

\* t holds 2 while its size argument has been reset: verify(None) returned
\* true and did not bind the argument again
C11_Witness ==
  /\ op.kind = "VerifyDimension" /\ op.who = "t" /\ op.val = None
  /\ IsOpen("t") /\ op.pre = 2 /\ dim_value["t"] = 2
  /\ arg_value["t"] = None /\ ret = "True"

\* C12: a verify on the Open dimension t with a non-null value other than the
\* held one shows the parent max(held, value): the call returns true, t holds
\* that maximum and the parent holds the larger of it and what it held.  A
\* verify(None) on t unset, with the parent resolved, returns true and leaves
\* t with the parent's value.
C12_ParentSeesMerged ==
  [][\A v \in DirectVals \cup {None}, py \in {2, 3} :
       (op'.kind = "VerifyDimension" /\ IsOpen("t")
          /\ VerifyDimension("t", v, py)) =>
          /\ (v # None /\ v # dim_value["t"]) =>
                /\ ret' = "True"
                /\ dim_value'["t"] = Larger(dim_value["t"], v)
                /\ dim_value'["time"] =
                      Larger(dim_value["time"], Larger(dim_value["t"], v))
          /\ (v = None /\ dim_value["t"] = None
                /\ dim_value["time"] # None) =>
                /\ ret' = "True"
                /\ dim_value'["t"] = dim_value["time"]
                /\ dim_value'["time"] = dim_value["time"]]_vars

\* t was unset and asked with None while time held 2: t holds 2
C12_Witness ==
  /\ op.kind = "VerifyDimension" /\ op.who = "t" /\ op.val = None
  /\ IsOpen("t") /\ op.pre = None /\ dim_value["t"] = 2
  /\ dim_value["time"] = 2 /\ ret = "True"

\* C15: once a provider's rtargs has been accessed, every later access gives
\* the same sequence: over verify, reset and size assignment the sequence of
\* a dimension stays what the first access made it.
C15_RtargsMemoized ==
  [][\A d \in Dims : rtargs[d] # "unset" => rtargs'[d] = rtargs[d]]_vars

\* x's rtargs was read again after x's size had been assigned: it is still
\* the sequence of the first access
C15_Witness ==
  /\ op.kind = "ReadRtargs" /\ op.who = "x"
  /\ rtargs["x"] = "arg" /\ size["x"] = StaticSize

\* C16: in every state a dimension's rtargs is empty when its size is
\* statically known and is the one size argument when it is not.
C16_RtargsFollowSize ==
  \A d \in DimsOf(scene) :
     /\ rtargs[d] = "empty" => Size(size, d) # None
     /\ rtargs[d] = "arg" => Size(size, d) = None

\* C18: verify(None) on a size argument leaves every held value as it was and
\* returns true exactly when the argument was ready.
C18_ScalarVerifyNone ==
  [][\A d \in Dims :
       (op'.kind = "VerifyScalar" /\ VerifyScalar(d, None)) =>
          /\ arg_value' = arg_value
          /\ dim_value' = dim_value
          /\ tensor_value' = tensor_value
          /\ ret' = IF ready(arg_value[d]) THEN "True" ELSE "False"]_vars

\* x_size held 2 and was verified with None
C18_Witness ==
  /\ op.kind = "VerifyScalar" /\ op.val = None /\ op.who = "x"
  /\ op.pre = 2 /\ arg_value["x"] = 2 /\ ret = "True"

\* A dimension accepts the extent e: it holds e already, or it has no static
\* size, or e is not below its static size.
AcceptsExtent(d, e) ==
  \/ e = dim_value[d]
  \/ Size(size, d) = None
  \/ e >= Size(size, d)

\* C19: verify of a tensor argument returns true and holds the array shown
\* exactly when the array's shape is the source's and every index dimension
\* accepts its extent; otherwise it returns false and holds what it held.
\* verify(None) judges the held array in the same way.
C19_TensorVerifyExactly ==
  [][\A T \in Tensors, a \in Arrays \cup {NoArray} :
       (op'.kind = "VerifyTensor" /\ op'.who = T /\ VerifyTensor(T, a)) =>
          LET v == IF a = NoArray THEN tensor_value[T] ELSE a
              good == /\ shape(v) = shape(T)
                      /\ \A i \in 1..Len(indices(T)) :
                            AcceptsExtent(indices(T)[i], shape(v)[i])
          IN /\ ret' = IF good THEN "True" ELSE "False"
             /\ tensor_value'[T] = IF good THEN v ELSE tensor_value[T]]_vars

\* A, holding the external array, was shown its own source and took it
C19_Witness ==
  /\ op.kind = "VerifyTensor" /\ op.who = "A" /\ op.arr = "A"
  /\ op.held = "ext" /\ tensor_value["A"] = "A" /\ ret = "True"

\* C20: an assignment to the size of a root dimension completes; after None
\* the dimension is not Fixed and has no static size, after a number it is
\* Fixed with that size.
C20_SizeAssignmentSwitches ==
  (op.kind = "SetSize" /\ op.who \in RootDims) =>
     /\ ret # "Raise"
     /\ op.val = None =>
           (size[op.who] = None /\ cls[op.who] # "FixedDimension")
     /\ op.val # None =>
           (size[op.who] = op.val /\ cls[op.who] = "FixedDimension")

\* C13: in every state the BufferedDimension t reports the size and the
\* reverse its parent has then, and the LoweredDimension tl reports those of
\* the buffered dimension it was made from.
C13_DerivedReportParent ==
  \A d \in Dims :
     /\ HasParent(d) =>
           /\ Size(size, d) = Size(size, parent(d))
           /\ Reverse(reverse, d) = Reverse(reverse, parent(d))
     /\ IsLowered(d) =>
           /\ Size(size, d) = Size(size, buffered(d))
           /\ Reverse(reverse, d) = Reverse(reverse, buffered(d))

\* time was given a size and a reverse after it had been verified: t and tl
\* report both
C13_Witness ==
  /\ op.kind = "SetReverse" /\ op.who = "time" /\ dim_value["time"] = 2
  /\ size["time"] = StaticSize /\ reverse["time"]
  /\ Size(size, "tl") = StaticSize /\ Reverse(reverse, "tl")
  /\ Size(size, "t") = StaticSize /\ Reverse(reverse, "t")

\* C14 (as stated): a derived dimension holds no resolved value of its own
\* and no size argument value of its own other than its parent's resolved
\* value.
C14_NoOwnResolution ==
  /\ \A d \in Dims : HasParent(d) =>
        /\ dim_value[d] = dim_value[parent(d)]
        /\ arg_value[d] \in {None, dim_value[parent(d)]}
  /\ \A d \in Dims : IsLowered(d) =>
        /\ dim_value[d] = dim_value[buffered(d)]
        /\ arg_value[d] \in {None, dim_value[buffered(d)]}

\* C14 (amended): the BufferedDimension t holds a resolved value of its own;
\* a value it takes in a verify is not above the value its parent holds
\* after that call, and the call does not lower the parent's value.
C14_OwnValueBelowParent ==
  [][(op'.kind \in {"VerifyDimension", "VerifyTensor"}
        /\ dim_value'["t"] # dim_value["t"]) =>
        /\ dim_value'["t"] # None
        /\ dim_value'["t"] <= dim_value'["time"]
        /\ dim_value'["time"] >= dim_value["time"]]_vars

\* t took 1 in a verify of its own and holds it while time, shown 2 since,
\* holds 2
C14_Witness ==
  /\ dim_value["t"] = 1 /\ dim_value["time"] = 2 /\ arg_value["t"] = 1
  /\ op.kind = "VerifyDimension" /\ op.who = "time" /\ op.val = 2

ChildBelowParent(dv) ==
  dv["t"] # None => (dv["time"] # None /\ dv["t"] <= dv["time"])

\* C30: within one resolution pass the value t holds is not above the value
\* its parent holds: the relation holds when everything has been reset, and
\* no call other than a reset breaks it.
C30_ChildBelowParent ==
  [][/\ op'.kind = "ResetAll" => ChildBelowParent(dim_value')
     /\ (ChildBelowParent(dim_value)
           /\ op'.kind \notin {"ResetDimension", "ResetScalar", "ResetTensor"})
        => ChildBelowParent(dim_value')]_vars

\* t holds 1 from a verify of its own, and time was shown 2 after it
C30_Witness ==
  /\ op.kind = "VerifyDimension" /\ op.who = "time" /\ op.val = 2
  /\ op.pre = 1 /\ dim_value["t"] = 1 /\ dim_value["time"] = 2
  /\ IsOpen("time")

\* C24: before any verify a tensor argument's value is the buffer of its own
\* source; after a verify that returned true for an array shown to it, the
\* value is that array when it is a raw array and the array's data buffer
\* when it is a data object.
C24_ValueIsBuffer ==
  \A T \in TensorsOf(scene) :
     /\ op.kind = "init" => TensorValue(tensor_value, T) = data(T)
     /\ (op.kind = "VerifyTensor" /\ op.who = T /\ op.arr # NoArray
           /\ ret = "True") =>
           TensorValue(tensor_value, T) =
              (IF op.arr \in Tensors THEN data(op.arr) ELSE op.arr)

\* A was shown the raw external array and hands it out
C24_Witness ==
  /\ op.kind = "VerifyTensor" /\ op.who = "A" /\ op.arr = "ext"
  /\ ret = "True" /\ TensorValue(tensor_value, "A") = "ext"

\* C23: a call of decl, ccode or verify on a base RuntimeArgument, or of
\* rtargs on a base RuntimeArgProvider, raises, and nothing any object holds
\* is changed by it.
C23_AbstractCallRaises ==
  [][op'.kind = "CallAbstract" =>
        /\ op'.who \in AbstractMethods
        /\ ret' = "Raise"
        /\ UNCHANGED held_state]_vars

\* verify of the base class was called after x had been given a size
C23_Witness ==
  /\ op.kind = "CallAbstract" /\ op.who = "verify" /\ ret = "Raise"
  /\ size["x"] = StaticSize

\* The length of an optional argument as the constructor is given it: that
\* of the shape's default when it is not given.
GivenLen(arg, shp) == IF arg.given THEN Len(arg.val) ELSE Len(shp)

\* C21: a Grid that is constructed has exactly len(shape) axis dimensions,
\* taken in order from the provided or the default pool, and its spacing is
\* extent / shape on every axis; for the shape (101, 101) with default
\* extent and origin the spacing is (1/101, 1/101) and the dimensions are
\* (x, y).
C21_GridSelectsDimAxes ==
  grid.status = "Grid" =>
     /\ Len(grid.self.dimensions) = Len(grid.shape)
     /\ grid.self.dimensions =
           SubSeq(Or(grid.dimensions, DefaultPool), 1, Len(grid.shape))
     /\ \A i \in 1..Len(grid.shape) :
           grid.self.spacing[i] = Frac(grid.self.extent[i], grid.shape[i])
     /\ (grid.shape = <<101, 101>> /\ ~grid.extent.given
           /\ ~grid.origin.given /\ ~grid.dimensions.given) =>
           /\ grid.self.spacing = << <<1, 101>>, <<1, 101>> >>
           /\ grid.self.dimensions = <<"x", "y">>

\* C22: no Grid is constructed from a shape, an origin and an extent that do
\* not all have the same length: the construction ends in the assertion's
\* failure.
C22_GridRejectsLengths ==
  (grid.status # "args"
     /\ ~(Len(grid.shape) = GivenLen(grid.origin, grid.shape)
          /\ Len(grid.shape) = GivenLen(grid.extent, grid.shape))) =>
     grid.status = "AssertionError"

\* C25: every tensor-backed field of a constructed Model (m for an array
\* velocity, damp, and the parameters given as arrays) has the model's
\* shape with 2 * nbpml added on every axis, so that the fields agree with
\* each other on every extent.
C25_FieldsOverShapeDomain ==
  model.status = "Model" =>
     /\ \A f \in DOMAIN model.fields :
           model.fields[f].kind = "Dense" =>
              /\ Len(model.fields[f].shape) = Len(model.shape)
              /\ \A i \in 1..Len(model.shape) :
                    model.fields[f].shape[i] =
                       model.shape[i] + 2 * model.nbpml
     /\ model.fields["damp"].kind = "Dense"
     /\ \A f \in Params :
           model.kinds[f] = "array" => model.fields[f].kind = "Dense"
     /\ IsArray(model.vp0) => model.fields["m"].kind = "Dense"

\* a model with two boundary layers on each side, an array velocity and an
\* array epsilon: m, damp and epsilon are tensor-backed
C25_Witness ==
  /\ model.status = "Model" /\ model.nbpml = 2 /\ model.shape = <<2, 3>>
  /\ model.vp0 = "va" /\ model.kinds["epsilon"] = "array"
  /\ model.fields["m"].shape = <<6, 7>>
  /\ model.fields["damp"].shape = <<6, 7>>
  /\ model.fields["epsilon"].shape = <<6, 7>>

\* C26: in a constructed Model the square slowness m is the one of the
\* velocity last assigned, padded to shape_domain when that velocity is an
\* array.
C26_SlownessFollowsVp ==
  model.status = "Model" =>
     /\ model.fields["m"].of = model.vp
     /\ IsArray(model.vp) =>
           model.fields["m"].data =
              shape_domain(model.shape, model.nbpml)

Returned == march.op.todo = <<>> /\ march.ops = 0

C29_OneGridPerName ==
  /\ [](\A c \in Contexts, n \in DataNames : yask.made[c][n] <= 1)
  /\ [][LET l == yask'.last IN
        /\ l.name \in yask.grids[l.context] =>
              /\ l.did = "exit"
              /\ yask'.grids = yask.grids /\ yask'.made = yask.made
        /\ l.did = "make_grid" =>
              /\ l.dimensions \in {ContextDimensions(l.context),
                                   ContextSpaceDimensions(l.context)}
              /\ yask'.grids[l.context] = yask.grids[l.context] \cup {l.name}
        /\ (l.name \notin yask.grids[l.context] /\ l.did # "make_grid") =>
              /\ l.did = "plain"
              /\ l.dimensions # ContextDimensions(l.context)
              /\ l.dimensions # ContextSpaceDimensions(l.context)
              /\ yask'.grids = yask.grids]_vars

\* u is a grid of context c2, v was allocated plainly over time, x, y, and a
\* second allocation of u in c2 has exited
C29_Witness ==
  /\ yask.grids["c2"] = {"u"} /\ yask.made["c2"]["u"] = 1
  /\ "v" \in yask.plain
  /\ yask.last = [name |-> "u", dimensions |-> <<"x", "y">>,
                  context |-> "c2", did |-> "exit"]

\* C31: a verify on an Open dimension that returned true has left the
\* dimension holding a value, also when the size argument was bound directly
\* before the dimension was ever verified.
C31_SuccessResolves ==
  (op.kind = "VerifyDimension" /\ IsOpen(op.who) /\ ret = "True") =>
     dim_value[op.who] # None

\* C32: the size argument of an Open dimension is never below the value the
\* dimension holds when both hold one.
C32_SizeArgumentCoversValue ==
  \A d \in Dims :
     (IsOpen(d) /\ dim_value[d] # None /\ arg_value[d] # None) =>
        arg_value[d] >= dim_value[d]

\* C33: a verify on an Open dimension that returned false has changed no
\* dimension's value and no size argument's value: not the dimension's own,
\* nor its parent's.
C33_FailedVerifyChangesNothing ==
  [][(op'.kind = "VerifyDimension" /\ ret' = "False" /\ IsOpen(op'.who)) =>
       /\ dim_value' = dim_value
       /\ arg_value' = arg_value]_vars

\* t and time are unresolved and time_size was bound directly: t.verify(None)
\* asked time, which answered true, found no value to bind t_size with and
\* returned false
C33_Witness ==
  /\ op.kind = "VerifyDimension" /\ op.who = "t" /\ op.val = None
  /\ IsOpen("t") /\ ret = "False"
  /\ dim_value["t"] = None /\ dim_value["time"] = None
  /\ arg_value["t"] = None /\ arg_value["time"] = 1

\* C34: verify on a dimension with a static size changes nothing, whatever
\* it returns: no dimension's value (its own stays what it was, its parent's
\* too), no size argument's value and no list of runtime arguments; a tensor
\* argument's verify along such a dimension changes no dimension's and no
\* size argument's value either.
C34_StaticVerifyIsPure ==
  [][/\ (op'.kind = "VerifyDimension" /\ size[root(op'.who)] # None) =>
          /\ dim_value' = dim_value
          /\ arg_value' = arg_value
          /\ rtargs' = rtargs
          /\ tensor_value' = tensor_value
     /\ (op'.kind = "VerifyTensor" /\ size["x"] # None
           /\ indices(op'.who) = <<"x">>) =>
          /\ dim_value' = dim_value
          /\ arg_value' = arg_value]_vars

\* x was resolved to 2, then given the size 10: the verify of W, of extent 12
\* along x, returned true and x and x_size still hold 2
C34_Witness ==
  /\ op.kind = "VerifyTensor" /\ op.who = "W" /\ ret = "True"
  /\ size["x"] = StaticSize
  /\ dim_value["x"] = 2 /\ arg_value["x"] = 2

\* C35: in a resolution pass of numbers shown to Open dimensions, in any
\* order and with repeats, a root dimension holds the largest number shown
\* to it or to a dimension under it so far, and so does its size argument; a
\* dimension under it holds what its own size argument holds, never more than
\* the root's, and after each number shown to it the larger of that number
\* and what it held.
C35_OrderIndependent ==
  /\ \A d \in DimsOf(scene) :
        /\ d \in RootDims =>
              dim_value[d] = obs[d] /\ arg_value[d] = obs[d]
        /\ d \notin RootDims =>
              dim_value[d] = arg_value[d] /\ dim_value[d] <= obs[root(d)]
  /\ (op.kind = "VerifyDimension" /\ op.who \notin RootDims) =>
        dim_value[op.who] = Larger(op.pre, op.val)

\* x was shown 50 by B and then 1 by the client: it holds 50, as it would
\* had 1 come first
C35_Witness ==
  /\ op.kind = "VerifyDimension" /\ op.who = "x" /\ op.val = 1
  /\ op.pre = 50 /\ obs["x"] = 50
  /\ dim_value["x"] = 50 /\ arg_value["x"] = 50

\* C36: a tensor argument holds an array in every state, its source or one
\* it was verified with: at construction, after a verify that returned
\* false and after a reset; a launch attempt is never held up by a tensor
\* argument that is verified and holds nothing.
C36_TensorAlwaysReady ==
  /\ \A T \in Tensors : tensor_value[T] # NoArray
  /\ op.kind = "VerifyTensor" =>
        tensor_value[op.who] \in {op.held, op.arr}
  /\ op.kind = "ResetTensor" => tensor_value[op.who] = op.who
  /\ \A T \in verified \cap Tensors : tensor_value[T] # NoArray

\* the verify of A with an array of another shape returned false and aborted
\* the launch attempt: A still holds its source
C36_Witness ==
  /\ scene = "kernel" /\ op.kind = "VerifyTensor" /\ op.who = "A"
  /\ op.arr = "B" /\ ret = "False" /\ launch = "aborted"
  /\ tensor_value["A"] = "A"
====
